---- MODULE Spec2Model ----
(***************************************************************************)
(* Skill normalization and co-occurrence pipeline of hh_vac_analyzer       *)
(* (analyzer.py: SkillNormalizer, is_soft_skill, is_language_level,        *)
(* analyze_skills).                                                        *)
(*                                                                         *)
(* A Python str is modelled as the sequence of its Unicode code points, so *)
(* that lower(), strip(), title(), re.sub, re.search and string comparison *)
(* are computed character by character as the interpreter computes them.   *)
(* Case mapping is given for the Basic Latin and Cyrillic blocks, which    *)
(* cover the synonym table, the pattern sets and every input of the model. *)
(***************************************************************************)
EXTENDS Integers, Sequences, FiniteSets, TLC

----------------------------------------------------------------------------
(* str primitives *)

\* str.lower() on one character (A-Z, U+0410..U+042F, U+0400..U+040F).
LowerChar(c) ==
  IF c \in 65..90 \/ c \in 1040..1071 THEN c + 32
  ELSE IF c \in 1024..1039 THEN c + 80
  ELSE c

\* str.upper() on one character.
UpperChar(c) ==
  IF c \in 97..122 \/ c \in 1072..1103 THEN c - 32
  ELSE IF c \in 1104..1119 THEN c - 80
  ELSE c

\* A cased character: one that lower() or upper() changes.
IsCased(c) == LowerChar(c) # c \/ UpperChar(c) # c

\* str.isspace() / the regex class \s.
IsSpace(c) == c \in {9, 10, 11, 12, 13, 28, 29, 30, 31, 32, 133, 160}

\* skill.lower()
lower(s) == [i \in 1..Len(s) |-> LowerChar(s[i])]

\* skill.strip(): drops leading and trailing whitespace.
strip(s) ==
  LET kept == {i \in 1..Len(s) : ~IsSpace(s[i])}
  IN  IF kept = {} THEN <<>>
      ELSE LET first == CHOOSE i \in kept : \A j \in kept : i <= j
               last  == CHOOSE i \in kept : \A j \in kept : j <= i
           IN  [i \in 1..(last - first + 1) |-> s[first + i - 1]]

\* str.title(): a cased character is upper-cased when it starts a run of
\* cased characters and lower-cased otherwise; uncased characters are kept.
title(s) ==
  [i \in 1..Len(s) |->
     IF ~IsCased(s[i]) THEN s[i]
     ELSE IF i > 1 /\ IsCased(s[i - 1]) THEN LowerChar(s[i])
     ELSE UpperChar(s[i])]

\* The character class [a-z0-9].
IsLowerAlnum(c) == c \in 97..122 \/ c \in 48..57

\* re.sub(r'[^a-z0-9]', '', s.lower())   (analyzer.py:85 and :91)
processed(s) == SelectSeq(lower(s), IsLowerAlnum)

\* Python's < on str: lexicographic by code point.
StrLess(a, b) ==
  \E k \in 1..(Len(a) + 1) :
     /\ \A i \in 1..(k - 1) : i <= Len(b) /\ a[i] = b[i]
     /\ k <= Len(b)
     /\ (k > Len(a) \/ a[k] < b[k])

----------------------------------------------------------------------------
(* The fragment of `re` the pattern sets use.  A regular expression is a   *)
(* sequence of elements; an element consumes one character ("one"), zero   *)
(* or one ("opt") or any number ("star") of characters of its class.       *)

Elem(kind, dot, chars) == [kind |-> kind, dot |-> dot, chars |-> chars]

\* A literal string.
Lit(s) == [i \in 1..Len(s) |-> Elem("one", FALSE, {s[i]})]

DotOpt  == Elem("opt", TRUE, {})                  \* .?
DotStar == Elem("star", TRUE, {})                 \* .*
Dash    == Elem("one", FALSE, {8212, 45, 8211})   \* [\u2014\-\u2013]  (em dash, hyphen, en dash)
LevelAC == Elem("one", FALSE, {65, 66, 67})       \* [A-C]
Level12 == Elem("one", FALSE, {49, 50})           \* [1-2]
SpaceStar == Elem("star", FALSE, {9, 10, 11, 12, 13, 28, 29, 30, 31, 32, 133, 160})  \* \s*

\* Does element e accept character c ('.' accepts all but newline).
Accepts(e, c, ignorecase) ==
  IF e.dot THEN c # 10
  ELSE IF ignorecase THEN \E d \in e.chars : LowerChar(d) = LowerChar(c)
  ELSE c \in e.chars

\* Can elements k.. of re match a substring of s that starts at position i.
RECURSIVE MatchAt(_, _, _, _, _)
MatchAt(re, k, s, i, ignorecase) ==
  IF k > Len(re) THEN TRUE
  ELSE LET e    == re[k]
           here == i <= Len(s) /\ Accepts(e, s[i], ignorecase)
       IN  CASE e.kind = "one"  -> here /\ MatchAt(re, k + 1, s, i + 1, ignorecase)
             [] e.kind = "opt"  -> \/ here /\ MatchAt(re, k + 1, s, i + 1, ignorecase)
                                   \/ MatchAt(re, k + 1, s, i, ignorecase)
             [] e.kind = "star" -> \/ MatchAt(re, k + 1, s, i, ignorecase)
                                   \/ here /\ MatchAt(re, k, s, i + 1, ignorecase)

\* re.search(p, s, flags) is not None, for a pattern p = [anchored, alts]:
\* an optional leading ^ and a top-level alternation of element sequences.
re_search(p, s, ignorecase) ==
  \E a \in DOMAIN p.alts :
     \E i \in (IF p.anchored THEN {1} ELSE 1..(Len(s) + 1)) :
        MatchAt(p.alts[a], 1, s, i, ignorecase)

----------------------------------------------------------------------------
\* SYNONYMS (analyzer.py:24-78), an insertion-ordered dict: a sequence of
\* <<variant, canonical>> entries in source order. Every string is the
\* sequence of its Unicode code points.
SYNONYMS ==
  << <<<<103, 111>>,
       <<71, 111, 108, 97, 110, 103>>>>  \* line 25: 'go' -> 'Golang'
  , <<<<103, 111, 108, 97, 110, 103>>,
       <<71, 111, 108, 97, 110, 103>>>>  \* line 26: 'golang' -> 'Golang'
  , <<<<103, 111, 32, 108, 97, 110, 103>>,
       <<71, 111, 108, 97, 110, 103>>>>  \* line 27: 'go lang' -> 'Golang'
  , <<<<112, 111, 115, 116, 103, 114, 101, 115, 113, 108>>,
       <<80, 111, 115, 116, 103, 114, 101, 83, 81, 76>>>>  \* line 28: 'postgresql' -> 'PostgreSQL'
  , <<<<112, 111, 115, 116, 103, 114, 101, 115>>,
       <<80, 111, 115, 116, 103, 114, 101, 83, 81, 76>>>>  \* line 29: 'postgres' -> 'PostgreSQL'
  , <<<<112, 111, 115, 116, 103, 101, 115, 113, 108>>,
       <<80, 111, 115, 116, 103, 114, 101, 83, 81, 76>>>>  \* line 30: 'postgesql' -> 'PostgreSQL'
  , <<<<107, 56, 115>>,
       <<75, 117, 98, 101, 114, 110, 101, 116, 101, 115>>>>  \* line 31: 'k8s' -> 'Kubernetes'
  , <<<<1082, 1091, 1073, 1077, 1088, 1085, 1077, 1090, 1077, 1089>>,
       <<75, 117, 98, 101, 114, 110, 101, 116, 101, 115>>>>  \* line 32: '\u043a\u0443\u0431\u0435\u0440\u043d\u0435\u0442\u0435\u0441' -> 'Kubernetes'
  , <<<<97, 112, 97, 99, 104, 101, 32, 107, 97, 102, 107, 97>>,
       <<75, 97, 102, 107, 97>>>>  \* line 33: 'apache kafka' -> 'Kafka'
  , <<<<107, 97, 102, 107, 97>>,
       <<75, 97, 102, 107, 97>>>>  \* line 34: 'kafka' -> 'Kafka'
  , <<<<114, 101, 115, 116, 32, 97, 112, 105>>,
       <<82, 69, 83, 84>>>>  \* line 35: 'rest api' -> 'REST'
  , <<<<114, 101, 115, 116, 102, 117, 108>>,
       <<82, 69, 83, 84>>>>  \* line 36: 'restful' -> 'REST'
  , <<<<114, 101, 115, 116>>,
       <<82, 69, 83, 84>>>>  \* line 37: 'rest' -> 'REST'
  , <<<<1084, 1080, 1082, 1088, 1086, 1089, 1077, 1088, 1074, 1080, 1089, 1085, 1072, 1103, 32, 1072, 1088, 1093, 1080, 1090, 1077, 1082, 1090, 1091, 1088, 1072>>,
       <<77, 105, 99, 114, 111, 115, 101, 114, 118, 105, 99, 101, 115>>>>  \* line 38: '\u043c\u0438\u043a\u0440\u043e\u0441\u0435\u0440\u0432\u0438\u0441\u043d\u0430\u044f \u0430\u0440\u0445\u0438\u0442\u0435\u043a\u0442\u0443\u0440\u0430' -> 'Microservices'
  , <<<<1084, 1080, 1082, 1088, 1086, 1089, 1077, 1088, 1074, 1080, 1089, 1099>>,
       <<77, 105, 99, 114, 111, 115, 101, 114, 118, 105, 99, 101, 115>>>>  \* line 39: '\u043c\u0438\u043a\u0440\u043e\u0441\u0435\u0440\u0432\u0438\u0441\u044b' -> 'Microservices'
  , <<<<100, 111, 99, 107, 101, 114, 45, 99, 111, 109, 112, 111, 115, 101>>,
       <<68, 111, 99, 107, 101, 114>>>>  \* line 40: 'docker-compose' -> 'Docker'
  , <<<<1076, 1086, 1082, 1077, 1088>>,
       <<68, 111, 99, 107, 101, 114>>>>  \* line 41: '\u0434\u043e\u043a\u0435\u0440' -> 'Docker'
  , <<<<103, 105, 116>>,
       <<71, 105, 116>>>>  \* line 42: 'git' -> 'Git'
  , <<<<103, 105, 116, 104, 117, 98>>,
       <<71, 105, 116>>>>  \* line 43: 'github' -> 'Git'
  , <<<<103, 105, 116, 108, 97, 98>>,
       <<71, 105, 116>>>>  \* line 44: 'gitlab' -> 'Git'
  , <<<<115, 113, 108>>,
       <<83, 81, 76>>>>  \* line 45: 'sql' -> 'SQL'
  , <<<<109, 121, 115, 113, 108>>,
       <<83, 81, 76>>>>  \* line 46: 'mysql' -> 'SQL'
  , <<<<109, 115, 32, 115, 113, 108>>,
       <<83, 81, 76>>>>  \* line 47: 'ms sql' -> 'SQL'
  , <<<<108, 105, 110, 117, 120>>,
       <<76, 105, 110, 117, 120, 47, 85, 110, 105, 120>>>>  \* line 48: 'linux' -> 'Linux/Unix'
  , <<<<117, 110, 105, 120>>,
       <<76, 105, 110, 117, 120, 47, 85, 110, 105, 120>>>>  \* line 49: 'unix' -> 'Linux/Unix'
  , <<<<99, 105, 47, 99, 100>>,
       <<67, 73, 47, 67, 68>>>>  \* line 50: 'ci/cd' -> 'CI/CD'
  , <<<<103, 105, 116, 108, 97, 98, 32, 99, 105>>,
       <<67, 73, 47, 67, 68>>>>  \* line 51: 'gitlab ci' -> 'CI/CD'
  , <<<<116, 101, 97, 109, 99, 105, 116, 121>>,
       <<67, 73, 47, 67, 68>>>>  \* line 52: 'teamcity' -> 'CI/CD'
  , <<<<106, 101, 110, 107, 105, 110, 115>>,
       <<67, 73, 47, 67, 68>>>>  \* line 53: 'jenkins' -> 'CI/CD'
  , <<<<99, 108, 105, 99, 107, 104, 111, 117, 115, 101>>,
       <<67, 108, 105, 99, 107, 72, 111, 117, 115, 101>>>>  \* line 54: 'clickhouse' -> 'ClickHouse'
  , <<<<1093, 1072, 1081, 1083, 1086, 1072, 1076>>,
       <<72, 105, 103, 104, 108, 111, 97, 100>>>>  \* line 55: '\u0445\u0430\u0439\u043b\u043e\u0430\u0434' -> 'Highload'
  , <<<<1074, 1099, 1089, 1086, 1082, 1086, 1085, 1072, 1075, 1088, 1091, 1078, 1077, 1085, 1085, 1099, 1077, 32, 1089, 1080, 1089, 1090, 1077, 1084, 1099>>,
       <<72, 105, 103, 104, 108, 111, 97, 100>>>>  \* line 56: '\u0432\u044b\u0441\u043e\u043a\u043e\u043d\u0430\u0433\u0440\u0443\u0436\u0435\u043d\u043d\u044b\u0435 \u0441\u0438\u0441\u0442\u0435\u043c\u044b' -> 'Highload'
  , <<<<114, 97, 98, 98, 105, 116, 109, 113>>,
       <<82, 97, 98, 98, 105, 116, 77, 81>>>>  \* line 57: 'rabbitmq' -> 'RabbitMQ'
  , <<<<114, 101, 100, 105, 115>>,
       <<82, 101, 100, 105, 115>>>>  \* line 58: 'redis' -> 'Redis'
  , <<<<109, 111, 110, 103, 111, 100, 98>>,
       <<77, 111, 110, 103, 111, 68, 66>>>>  \* line 59: 'mongodb' -> 'MongoDB'
  , <<<<110, 111, 115, 113, 108>>,
       <<78, 111, 83, 81, 76>>>>  \* line 60: 'nosql' -> 'NoSQL'
  , <<<<110, 103, 105, 110, 120>>,
       <<78, 103, 105, 110, 120>>>>  \* line 61: 'nginx' -> 'Nginx'
  , <<<<99, 43, 43>>,
       <<67, 47, 67, 43, 43>>>>  \* line 62: 'c++' -> 'C/C++'
  , <<<<99, 47, 99, 43, 43>>,
       <<67, 47, 67, 43, 43>>>>  \* line 63: 'c/c++' -> 'C/C++'
  , <<<<99, 35>>,
       <<67, 35>>>>  \* line 64: 'c#' -> 'C#'
  , <<<<112, 121, 116, 104, 111, 110>>,
       <<80, 121, 116, 104, 111, 110>>>>  \* line 65: 'python' -> 'Python'
  , <<<<1087, 1080, 1090, 1086, 1085>>,
       <<80, 121, 116, 104, 111, 110>>>>  \* line 66: '\u043f\u0438\u0442\u043e\u043d' -> 'Python'
  , <<<<106, 97, 118, 97>>,
       <<74, 97, 118, 97>>>>  \* line 67: 'java' -> 'Java'
  , <<<<106, 97, 118, 97, 115, 99, 114, 105, 112, 116>>,
       <<74, 97, 118, 97, 83, 99, 114, 105, 112, 116>>>>  \* line 68: 'javascript' -> 'JavaScript'
  , <<<<106, 115>>,
       <<74, 97, 118, 97, 83, 99, 114, 105, 112, 116>>>>  \* line 69: 'js' -> 'JavaScript'
  , <<<<116, 121, 112, 101, 115, 99, 114, 105, 112, 116>>,
       <<84, 121, 112, 101, 83, 99, 114, 105, 112, 116>>>>  \* line 70: 'typescript' -> 'TypeScript'
  , <<<<116, 115>>,
       <<84, 121, 112, 101, 83, 99, 114, 105, 112, 116>>>>  \* line 71: 'ts' -> 'TypeScript'
  , <<<<114, 101, 97, 99, 116>>,
       <<82, 101, 97, 99, 116>>>>  \* line 72: 'react' -> 'React'
  , <<<<114, 101, 97, 99, 116, 46, 106, 115>>,
       <<82, 101, 97, 99, 116>>>>  \* line 73: 'react.js' -> 'React'
  , <<<<118, 117, 101>>,
       <<86, 117, 101, 46, 106, 115>>>>  \* line 74: 'vue' -> 'Vue.js'
  , <<<<118, 117, 101, 46, 106, 115>>,
       <<86, 117, 101, 46, 106, 115>>>>  \* line 75: 'vue.js' -> 'Vue.js'
  , <<<<110, 111, 100, 101, 46, 106, 115>>,
       <<78, 111, 100, 101, 46, 106, 115>>>>  \* line 76: 'node.js' -> 'Node.js'
  , <<<<110, 111, 100, 101, 106, 115>>,
       <<78, 111, 100, 101, 46, 106, 115>>>>  \* line 77: 'nodejs' -> 'Node.js'
  >>

\* soft_patterns (analyzer.py:103-112), in source order.
soft_patterns ==
  << Lit(<<1082, 1086, 1084, 1084, 1091, 1085, 1080, 1082, 1072, 1073>>)  \* "r'\u043a\u043e\u043c\u043c\u0443\u043d\u0438\u043a\u0430\u0431'"
  , Lit(<<1086, 1090, 1074, 1077, 1090, 1089, 1090, 1074, 1077, 1085>>)  \* "r'\u043e\u0442\u0432\u0435\u0442\u0441\u0442\u0432\u0435\u043d'"
  , Lit(<<1089, 1090, 1088, 1077, 1089, 1089, 1086, 1091, 1089, 1090>>)  \* "r'\u0441\u0442\u0440\u0435\u0441\u0441\u043e\u0443\u0441\u0442'"
  , Lit(<<1089, 1072, 1084, 1086, 1089, 1090, 1086, 1103, 1090, 1077, 1083>>)  \* "r'\u0441\u0430\u043c\u043e\u0441\u0442\u043e\u044f\u0442\u0435\u043b'"
  , Lit(<<1080, 1085, 1080, 1094, 1080, 1072, 1090, 1080, 1074>>)  \* "r'\u0438\u043d\u0438\u0446\u0438\u0430\u0442\u0438\u0432'"
  , Lit(<<1086, 1073, 1091, 1095, 1072, 1077, 1084>>)  \* "r'\u043e\u0431\u0443\u0447\u0430\u0435\u043c'"
  , Lit(<<1074, 1085, 1080, 1084, 1072, 1090, 1077, 1083>>)  \* "r'\u0432\u043d\u0438\u043c\u0430\u0442\u0435\u043b'"
  , Lit(<<1072, 1082, 1082, 1091, 1088, 1072, 1090, 1085>>)  \* "r'\u0430\u043a\u043a\u0443\u0440\u0430\u0442\u043d'"
  , Lit(<<1082, 1086, 1084, 1072, 1085, 1076, 1085>>)  \* "r'\u043a\u043e\u043c\u0430\u043d\u0434\u043d'"
  , Lit(<<1088, 1072, 1073, 1086, 1090, 1072, 32, 1074, 32, 1082, 1086, 1084, 1072, 1085, 1076>>)  \* "r'\u0440\u0430\u0431\u043e\u0442\u0430 \u0432 \u043a\u043e\u043c\u0430\u043d\u0434'"
  , Lit(<<116, 101, 97, 109>>) \o <<DotOpt>> \o Lit(<<119, 111, 114, 107>>)  \* "r'team.?work'"
  , Lit(<<99, 111, 109, 109, 117, 110, 105, 99, 97, 116, 105, 111, 110>>)  \* "r'communication'"
  , Lit(<<108, 101, 97, 100, 101, 114, 115, 104, 105, 112>>)  \* "r'leadership'"
  , Lit(<<1083, 1080, 1076, 1077, 1088, 1089, 1090, 1074>>)  \* "r'\u043b\u0438\u0434\u0435\u0440\u0441\u0442\u0432'"
  , Lit(<<1084, 1086, 1090, 1080, 1074, 1072, 1094>>)  \* "r'\u043c\u043e\u0442\u0438\u0432\u0430\u0446'"
  , Lit(<<1076, 1080, 1089, 1094, 1080, 1087, 1083, 1080, 1085>>)  \* "r'\u0434\u0438\u0441\u0446\u0438\u043f\u043b\u0438\u043d'"
  , Lit(<<1087, 1091, 1085, 1082, 1090, 1091, 1072, 1083, 1100, 1085>>)  \* "r'\u043f\u0443\u043d\u043a\u0442\u0443\u0430\u043b\u044c\u043d'"
  , Lit(<<1080, 1089, 1087, 1086, 1083, 1085, 1080, 1090, 1077, 1083, 1100, 1085>>)  \* "r'\u0438\u0441\u043f\u043e\u043b\u043d\u0438\u0442\u0435\u043b\u044c\u043d'"
  , Lit(<<1082, 1088, 1077, 1072, 1090, 1080, 1074>>)  \* "r'\u043a\u0440\u0435\u0430\u0442\u0438\u0432'"
  , Lit(<<1075, 1080, 1073, 1082, 1086, 1089, 1090>>)  \* "r'\u0433\u0438\u0431\u043a\u043e\u0441\u0442'"
  , Lit(<<1072, 1076, 1072, 1087, 1090, 1080, 1074>>)  \* "r'\u0430\u0434\u0430\u043f\u0442\u0438\u0432'"
  , Lit(<<1084, 1085, 1086, 1075, 1086, 1079, 1072, 1076, 1072, 1095, 1085>>)  \* "r'\u043c\u043d\u043e\u0433\u043e\u0437\u0430\u0434\u0430\u0447\u043d'"
  , Lit(<<1090, 1072, 1081, 1084>>) \o <<DotOpt>> \o Lit(<<1084, 1077, 1085, 1077, 1076, 1078, 1084, 1077, 1085, 1090>>)  \* "r'\u0442\u0430\u0439\u043c.?\u043c\u0435\u043d\u0435\u0434\u0436\u043c\u0435\u043d\u0442'"
  , Lit(<<116, 105, 109, 101>>) \o <<DotOpt>> \o Lit(<<109, 97, 110, 97, 103, 101, 109, 101, 110, 116>>)  \* "r'time.?management'"
  , Lit(<<112, 114, 111, 98, 108, 101, 109>>) \o <<DotOpt>> \o Lit(<<115, 111, 108, 118, 105, 110, 103>>)  \* "r'problem.?solving'"
  , Lit(<<1088, 1077, 1096, 1077, 1085, 1080, 1077, 32, 1087, 1088, 1086, 1073, 1083, 1077, 1084>>)  \* "r'\u0440\u0435\u0448\u0435\u043d\u0438\u0435 \u043f\u0440\u043e\u0431\u043b\u0435\u043c'"
  , Lit(<<1072, 1085, 1072, 1083, 1080, 1090, 1080, 1095, 1077, 1089, 1082>>) \o <<DotStar>> \o Lit(<<1084, 1099, 1096, 1083, 1077, 1085>>)  \* "r'\u0430\u043d\u0430\u043b\u0438\u0442\u0438\u0447\u0435\u0441\u043a.*\u043c\u044b\u0448\u043b\u0435\u043d'"
  , Lit(<<1082, 1088, 1080, 1090, 1080, 1095, 1077, 1089, 1082>>) \o <<DotStar>> \o Lit(<<1084, 1099, 1096, 1083, 1077, 1085>>)  \* "r'\u043a\u0440\u0438\u0442\u0438\u0447\u0435\u0441\u043a.*\u043c\u044b\u0448\u043b\u0435\u043d'"
  , Lit(<<1087, 1077, 1088, 1077, 1075, 1086, 1074, 1086, 1088>>)  \* "r'\u043f\u0435\u0440\u0435\u0433\u043e\u0432\u043e\u0440'"
  , Lit(<<1087, 1088, 1077, 1079, 1077, 1085, 1090, 1072, 1094>>)  \* "r'\u043f\u0440\u0435\u0437\u0435\u043d\u0442\u0430\u0446'"
  >>

----------------------------------------------------------------------------
(* SkillNormalizer *)

\* SkillNormalizer.__init__ (analyzer.py:80-86): self.mapping.  Entries are
\* inserted in table order, so a later variant with the same processed key
\* overwrites an earlier one.
mapping ==
  LET key(i) == processed(SYNONYMS[i][1])
      keys   == {key(i) : i \in DOMAIN SYNONYMS}
      lastOf(k) == CHOOSE i \in DOMAIN SYNONYMS :
                      /\ key(i) = k
                      /\ \A j \in DOMAIN SYNONYMS : key(j) = k => j <= i
  IN  [k \in keys |-> SYNONYMS[lastOf(k)][2]]

\* SkillNormalizer.normalize (analyzer.py:88-98)
normalize(skill) ==
  LET processed_skill == processed(skill)
  IN  IF processed_skill \in DOMAIN mapping
      THEN mapping[processed_skill]
      ELSE title(strip(skill))

----------------------------------------------------------------------------
(* Classifier *)

\* is_soft_skill (analyzer.py:101-114): re.search of every pattern in the
\* lower-cased skill, no flags.
is_soft_skill(skill) ==
  LET skill_lower == lower(skill)
  IN  \E n \in DOMAIN soft_patterns :
         re_search([anchored |-> FALSE, alts |-> <<soft_patterns[n]>>],
                   skill_lower, FALSE)

\* patterns of is_language_level (analyzer.py:119-125), in source order.
patterns ==
  << \* r'\u0430\u043d\u0433\u043b\u0438\u0439\u0441\u043a\u0438\u0439.*[\u2014\-\u2013].*[A-C][1-2]'
     [anchored |-> FALSE, alts |-> <<
        Lit(<<1072, 1085, 1075, 1083, 1080, 1081, 1089, 1082, 1080, 1081>>)
          \o <<DotStar, Dash, DotStar, LevelAC, Level12>> >>]
     \* r'english.*[\u2014\-\u2013].*[A-C][1-2]'
   , [anchored |-> FALSE, alts |-> <<
        Lit(<<101, 110, 103, 108, 105, 115, 104>>)
          \o <<DotStar, Dash, DotStar, LevelAC, Level12>> >>]
     \* r'^[A-C][1-2]\s*[\u2014\-\u2013]'
   , [anchored |-> TRUE, alts |-> << <<LevelAC, Level12, SpaceStar, Dash>> >>]
     \* r'(intermediate|upper|beginner|advanced|native|fluent)'
   , [anchored |-> FALSE, alts |-> <<
        Lit(<<105, 110, 116, 101, 114, 109, 101, 100, 105, 97, 116, 101>>),
        Lit(<<117, 112, 112, 101, 114>>),
        Lit(<<98, 101, 103, 105, 110, 110, 101, 114>>),
        Lit(<<97, 100, 118, 97, 110, 99, 101, 100>>),
        Lit(<<110, 97, 116, 105, 118, 101>>),
        Lit(<<102, 108, 117, 101, 110, 116>>) >>]
     \* r'(\u0441\u0440\u0435\u0434\u043d\u0438\u0439|\u043f\u0440\u043e\u0434\u0432\u0438\u043d\u0443\u0442|\u043d\u0430\u0447\u0430\u043b\u044c\u043d|\u0441\u0432\u043e\u0431\u043e\u0434\u043d|\u0431\u0430\u0437\u043e\u0432).*\u0443\u0440\u043e\u0432\u0435\u043d\u044c'
   , [anchored |-> FALSE, alts |-> <<
        Lit(<<1089, 1088, 1077, 1076, 1085, 1080, 1081>>)
          \o <<DotStar>> \o Lit(<<1091, 1088, 1086, 1074, 1077, 1085, 1100>>),
        Lit(<<1087, 1088, 1086, 1076, 1074, 1080, 1085, 1091, 1090>>)
          \o <<DotStar>> \o Lit(<<1091, 1088, 1086, 1074, 1077, 1085, 1100>>),
        Lit(<<1085, 1072, 1095, 1072, 1083, 1100, 1085>>)
          \o <<DotStar>> \o Lit(<<1091, 1088, 1086, 1074, 1077, 1085, 1100>>),
        Lit(<<1089, 1074, 1086, 1073, 1086, 1076, 1085>>)
          \o <<DotStar>> \o Lit(<<1091, 1088, 1086, 1074, 1077, 1085, 1100>>),
        Lit(<<1073, 1072, 1079, 1086, 1074>>)
          \o <<DotStar>> \o Lit(<<1091, 1088, 1086, 1074, 1077, 1085, 1100>>) >>]
  >>

\* is_language_level (analyzer.py:117-126): re.search with re.IGNORECASE.
is_language_level(skill) ==
  \E n \in DOMAIN patterns : re_search(patterns[n], skill, TRUE)

----------------------------------------------------------------------------
(* Skill strings used as inputs, and canonical names. *)

S_Go == <<71, 111>>  \* 'Go'
S_golang == <<103, 111, 108, 97, 110, 103>>  \* 'golang'
S_Docker == <<68, 111, 99, 107, 101, 114>>  \* 'Docker'
S_PostgreSQL == <<80, 111, 115, 116, 103, 114, 101, 83, 81, 76>>  \* 'PostgreSQL'
S_stress == <<1089, 1090, 1088, 1077, 1089, 1089, 1086, 1091, 1089, 1090, 1086, 1081, 1095, 1080, 1074, 1086, 1089, 1090, 1100>>  \* '\u0441\u0442\u0440\u0435\u0441\u0441\u043e\u0443\u0441\u0442\u043e\u0439\u0447\u0438\u0432\u043e\u0441\u0442\u044c'
S_EnglishB2 == <<69, 110, 103, 108, 105, 115, 104, 32, 8212, 32, 66, 50>>  \* 'English \u2014 B2'
S_comm_go == <<1082, 1086, 1084, 1084, 1091, 1085, 1080, 1082, 1072, 1073, 1077, 1083, 1100, 1085, 1086, 1089, 1090, 1100, 32, 103, 111>>  \* '\u043a\u043e\u043c\u043c\u0443\u043d\u0438\u043a\u0430\u0431\u0435\u043b\u044c\u043d\u043e\u0441\u0442\u044c go'
S_empty == <<>>  \* ''
S_space == <<32>>  \* ' '
S_AdvComm == <<65, 100, 118, 97, 110, 99, 101, 100, 32, 99, 111, 109, 109, 117, 110, 105, 99, 97, 116, 105, 111, 110>>  \* 'Advanced communication'
S_Redis == <<114, 101, 100, 105, 115>>  \* 'redis'
S_Kafka == <<65, 112, 97, 99, 104, 101, 32, 75, 97, 102, 107, 97>>  \* 'Apache Kafka'
S_Nginx == <<110, 103, 105, 110, 120>>  \* 'nginx'
S_Java == <<106, 97, 118, 97>>  \* 'java'
S_React == <<82, 101, 97, 99, 116, 46, 106, 115>>  \* 'React.js'
S_SQL == <<77, 121, 83, 81, 76>>  \* 'MySQL'
S_Git == <<71, 105, 116, 72, 117, 98>>  \* 'GitHub'
N_Golang == <<71, 111, 108, 97, 110, 103>>  \* 'Golang'
N_PostgreSQL == <<80, 111, 115, 116, 103, 114, 101, 83, 81, 76>>  \* 'PostgreSQL'
N_Docker == <<68, 111, 99, 107, 101, 114>>  \* 'Docker'
N_Python == <<80, 121, 116, 104, 111, 110>>  \* 'Python'
N_Stress == <<1057, 1090, 1088, 1077, 1089, 1089, 1086, 1091, 1089, 1090, 1086, 1081, 1095, 1080, 1074, 1086, 1089, 1090, 1100>>  \* '\u0421\u0442\u0440\u0435\u0441\u0441\u043e\u0443\u0441\u0442\u043e\u0439\u0447\u0438\u0432\u043e\u0441\u0442\u044c'
----------------------------------------------------------------------------
(* Inputs: the vacancy collection handed to analyze_skills.                *)

MaxVacancies == 2   \* vacancies per enumerated collection
MaxSkills    == 2   \* skill strings per enumerated vacancy
MaxPermSize  == 3   \* sets up to this size are iterated in every order

\* A vacancy dict, reduced to its 'skills' entry: the key is absent, maps to
\* None, or maps to a list of strings.
NoSkillsKey == [skills |-> "absent", items |-> <<>>]
NullSkills  == [skills |-> "null", items |-> <<>>]
WithSkills(items) == [skills |-> "list", items |-> items]

\* Skill strings of the enumerated collections: two variants of one
\* canonical skill, another technical skill, a soft skill, a language level.
Catalog == {S_Go, S_golang, S_Docker, S_stress, S_EnglishB2}

SkillLists == UNION {[1..n -> Catalog] : n \in 0..MaxSkills}

VacancyValues ==
  {NoSkillsKey, NullSkills} \cup {WithSkills(l) : l \in SkillLists}

BoundedInputs == UNION {[1..n -> VacancyValues] : n \in 0..MaxVacancies}

\* The end-to-end scenario of the specification.
EndToEnd ==
  << WithSkills(<<S_Go, S_PostgreSQL, S_stress>>),
     WithSkills(<<S_golang, S_Docker>>) >>

\* Nine distinct technical skills on one vacancy (36 pairs), two of them
\* again on a second vacancy.
ManyPairs ==
  << WithSkills(<<S_Go, S_Docker, S_Redis, S_Kafka, S_Nginx, S_Java,
                  S_React, S_SQL, S_Git>>),
     WithSkills(<<S_Docker, S_Go>>) >>

\* Repeated mentions and two variants of one canonical skill on one vacancy.
Repeated ==
  << WithSkills(<<S_Go, S_golang, S_Go, S_Docker>>),
     WithSkills(<<S_Docker, S_PostgreSQL, S_golang>>) >>

\* A soft-skill phrase whose lookup key is that of a technical synonym.
CrossCategory == << WithSkills(<<S_comm_go, S_Go>>), NoSkillsKey >>

\* Empty and whitespace-only skill strings.
Blank == << WithSkills(<<S_empty, S_space, S_Docker>>) >>

\* A string that matches both a language-level and a soft-skill pattern.
BothPatterns == << WithSkills(<<S_AdvComm, S_Go, S_stress>>) >>

Scenarios ==
  {EndToEnd, ManyPairs, Repeated, CrossCategory, Blank, BothPatterns}

Inputs == BoundedInputs \cup Scenarios

\* One vacancy per entry of the synonym table, whose only skill is the
\* variant of the entry as the table spells it.
SynonymInputs ==
  {<<WithSkills(<<SYNONYMS[i][1]>>)>> : i \in DOMAIN SYNONYMS}

\* Every skill string of every input.
SkillStrings ==
  Catalog \cup
  UNION {UNION {{sc[v].items[n] : n \in DOMAIN sc[v].items} : v \in DOMAIN sc} : sc \in Scenarios}
  \cup {SYNONYMS[i][1] : i \in DOMAIN SYNONYMS}

----------------------------------------------------------------------------
(* Containers *)

\* The elements of a finite set of integers, ascending.
Ascending(S) ==
  [k \in 1..Cardinality(S) |->
     CHOOSE i \in S : Cardinality({j \in S : j < i}) = k - 1]

\* collections.Counter(list): one [key, count] item per distinct element, in
\* first-seen order (dict insertion order).
Counter(list) ==
  LET firsts == {i \in DOMAIN list : \A j \in 1..(i - 1) : list[j] # list[i]}
      order  == Ascending(firsts)
  IN  [k \in DOMAIN order |->
         [key   |-> list[order[k]],
          count |-> Cardinality({j \in DOMAIN list : list[j] = list[order[k]]})]]

\* counter[key] = count: replaces the item of an existing key in place,
\* appends a new key.
SetItem(counter, key, count) ==
  IF \E n \in DOMAIN counter : counter[n].key = key
  THEN [n \in DOMAIN counter |->
          IF counter[n].key = key THEN [key |-> key, count |-> count]
          ELSE counter[n]]
  ELSE Append(counter, [key |-> key, count |-> count])

\* counter[key] (0 for a missing key).
GetItem(counter, key) ==
  IF \E n \in DOMAIN counter : counter[n].key = key
  THEN counter[CHOOSE n \in DOMAIN counter : counter[n].key = key].count
  ELSE 0

\* A slip: sorted ascending and then reversed, which reverses ties.
SortedDesc_reversed_ties(items, keys) ==
  LET before(i, j) == keys[i] > keys[j] \/ (keys[i] = keys[j] /\ i > j)
      rank(i) == Cardinality({j \in DOMAIN items : before(j, i)}) + 1
  IN  [p \in DOMAIN items |-> items[CHOOSE i \in DOMAIN items : rank(i) = p]]

\* sorted(items, key=lambda item: -keys[item]): descending by key, stable.
SortedDesc(items, keys) ==
  LET before(i, j) == keys[i] > keys[j] \/ (keys[i] = keys[j] /\ i < j)
      rank(i) == Cardinality({j \in DOMAIN items : before(j, i)}) + 1
  IN  [p \in DOMAIN items |-> items[CHOOSE i \in DOMAIN items : rank(i) = p]]

----------------------------------------------------------------------------
(* analyze_skills *)

VARIABLES
  vacancies,      \* the argument
  pc,             \* "categorize", "combos", "done", or "raised" (TypeError)
  vi,             \* index of the next vacancy of the current loop
  raw_technical, raw_soft, raw_languages,
  technical, soft, languages,
  combos,
  result          \* the returned dict, once pc = "done"

vars == <<vacancies, pc, vi, raw_technical, raw_soft, raw_languages,
          technical, soft, languages, combos, result>>

\* v.get('skills', [])
get_skills(v) == IF v.skills = "absent" THEN <<>> ELSE v.items

\* Iterating None raises TypeError.
Iterable(v) == v.skills # "null"

\* The three pure functions of a skill string, evaluated once per string of
\* the inputs.
NormalizeOf   == [s \in SkillStrings |-> normalize(s)]
IsSoftOf      == [s \in SkillStrings |-> is_soft_skill(s)]
IsLanguageOf  == [s \in SkillStrings |-> is_language_level(s)]

\* A slip: the soft-skill test runs before the language-level test.
category_soft_first(skill) ==
  IF IsSoftOf[skill] THEN "soft"
  ELSE IF IsLanguageOf[skill] THEN "languages"
  ELSE "technical"

\* The if / elif / else of the categorization loop (analyzer.py:156-161).
category(skill) ==
  IF IsLanguageOf[skill] THEN "languages"
  ELSE IF IsSoftOf[skill] THEN "soft"
  ELSE "technical"

IsTechnical(skill) == category(skill) = "technical"
IsSoft(skill)      == category(skill) = "soft"
IsLanguage(skill)  == category(skill) = "languages"

\* A slip: total_count += 1 in place of total_count += count.
RECURSIVE Accumulate_by_one(_, _, _)
Accumulate_by_one(normalized_data, raw_counts, k) ==
  IF k > Len(raw_counts) THEN normalized_data
  ELSE
    LET skill     == raw_counts[k].key
        count     == raw_counts[k].count
        canonical == NormalizeOf[skill]
        data == IF \E b \in DOMAIN normalized_data :
                      normalized_data[b].canonical = canonical
                THEN normalized_data
                ELSE Append(normalized_data,
                            [canonical |-> canonical, total_count |-> 0,
                             variants |-> <<>>])
        b == CHOOSE b \in DOMAIN data : data[b].canonical = canonical
    IN  Accumulate_by_one([data EXCEPT ![b].total_count = @ + 1,
                                       ![b].variants = SetItem(@, skill, count)],
                          raw_counts, k + 1)

\* The loop of _normalize_category over raw_counts.items()
\* (analyzer.py:168-172); normalized_data is a defaultdict, kept as a
\* sequence of buckets in insertion order.
RECURSIVE Accumulate(_, _, _)
Accumulate(normalized_data, raw_counts, k) ==
  IF k > Len(raw_counts) THEN normalized_data
  ELSE
    LET skill     == raw_counts[k].key
        count     == raw_counts[k].count
        canonical == NormalizeOf[skill]
        data == IF \E b \in DOMAIN normalized_data :
                      normalized_data[b].canonical = canonical
                THEN normalized_data
                ELSE Append(normalized_data,
                            [canonical |-> canonical, total_count |-> 0,
                             variants |-> <<>>])
        b == CHOOSE b \in DOMAIN data : data[b].canonical = canonical
    IN  Accumulate([data EXCEPT ![b].total_count = @ + count,
                                ![b].variants = SetItem(@, skill, count)],
                   raw_counts, k + 1)

\* _normalize_category (analyzer.py:165-180): the ordered dict
\* canonical -> {total_count, variants}, as a sequence of buckets.
normalize_category(raw_skills) ==
  LET raw_counts      == Counter(raw_skills)
      normalized_data == Accumulate(<<>>, raw_counts, 1)
      sorted_variants(v) == SortedDesc(v, [n \in DOMAIN v |-> v[n].count])
      with_sorted ==
        [b \in DOMAIN normalized_data |->
           [normalized_data[b] EXCEPT !.variants = sorted_variants(@)]]
  IN  SortedDesc(with_sorted,
                 [b \in DOMAIN with_sorted |-> with_sorted[b].total_count])

\* A slip: language-level markers are not filtered out.
KeepForCombos_soft_only(s) == ~IsSoftOf[s]

\* The filter of current_raw_tech (analyzer.py:190)
KeepForCombos(s) == ~IsSoftOf[s] /\ ~IsLanguageOf[s]

\* current_raw_tech (analyzer.py:190)
current_raw_tech(v) == SelectSeq(get_skills(v), KeepForCombos)

\* normalized_tech_in_vacancy (analyzer.py:191)
normalized_tech_in_vacancy(v) ==
  LET raw == current_raw_tech(v)
  IN  {NormalizeOf[raw[n]] : n \in DOMAIN raw}

\* The strings of a set in ascending order.
AscendingStr(S) ==
  [k \in 1..Cardinality(S) |->
     CHOOSE s \in S : Cardinality({t \in S : StrLess(t, s)}) = k - 1]

\* list(a_set) (analyzer.py:193): the iteration order of a set of str is
\* fixed by the string hashes, which differ from process to process.  Every
\* order is possible; sets larger than MaxPermSize are taken in the
\* rotations of their ascending and of their descending order.
IterOrders(S) ==
  LET n == Cardinality(S)
  IN  IF n <= MaxPermSize
      THEN {f \in [1..n -> S] : \A i, j \in 1..n : i # j => f[i] # f[j]}
      ELSE LET asc == AscendingStr(S)
               rot(q, r) == [i \in 1..n |-> q[((i + r - 1) % n) + 1]]
               desc == [i \in 1..n |-> asc[n + 1 - i]]
           IN  {rot(asc, r) : r \in 0..(n - 1)} \cup
               {rot(desc, r) : r \in 0..(n - 1)}

\* A slip: the list of normalized names, not de-duplicated through a set.
unique_lists_no_dedup(v) ==
  LET raw == current_raw_tech(v)
  IN  {[n \in DOMAIN raw |-> NormalizeOf[raw[n]]]}

\* unique_list = list(normalized_tech_in_vacancy)   (analyzer.py:190-193):
\* the orders the list can come out in.
unique_lists(v) == IterOrders(normalized_tech_in_vacancy(v))

\* A slip: the pair is not sorted.
sorted_pair_unsorted(s1, s2) == <<s1, s2>>

\* pair = tuple(sorted([s1, s2]))   (analyzer.py:196)
sorted_pair(s1, s2) == IF StrLess(s2, s1) THEN <<s2, s1>> ELSE <<s1, s2>>

\* The nested loops over unique_list (analyzer.py:194-197).
RECURSIVE CountPairs(_, _, _, _)
CountPairs(counter, unique_list, i, j) ==
  IF i > Len(unique_list) THEN counter
  ELSE IF j > Len(unique_list)
       THEN CountPairs(counter, unique_list, i + 1, i + 2)
       ELSE LET pair == sorted_pair(unique_list[i], unique_list[j])
            IN  CountPairs(SetItem(counter, pair, GetItem(counter, pair) + 1),
                           unique_list, i, j + 1)

\* The 30 of combos.most_common(30)   (analyzer.py:206)
TopN == 30

\* A slip: the first n items in insertion order, not sorted by count.
most_common_unsorted(counter, n) ==
  SubSeq(counter, 1, IF Len(counter) < n THEN Len(counter) ELSE n)

\* Counter.most_common(n): the n items of highest count, descending, items
\* of equal count in insertion order.
most_common(counter, n) ==
  LET ordered == SortedDesc(counter,
                            [k \in DOMAIN counter |-> counter[k].count])
  IN  SubSeq(ordered, 1, IF Len(ordered) < n THEN Len(ordered) ELSE n)

NoResult ==
  [technical |-> <<>>, soft |-> <<>>, languages |-> <<>>,
   total_mentions |-> 0, unique_raw |-> 0, unique_normalized |-> 0,
   combinations |-> <<>>]

Init ==
  /\ vacancies \in Inputs
  /\ pc = "categorize"
  /\ vi = 1
  /\ raw_technical = <<>>
  /\ raw_soft = <<>>
  /\ raw_languages = <<>>
  /\ technical = <<>>
  /\ soft = <<>>
  /\ languages = <<>>
  /\ combos = <<>>
  /\ result = NoResult

\* One iteration of the categorization loop (analyzer.py:154-161).
Categorize ==
  /\ pc = "categorize"
  /\ vi <= Len(vacancies)
  /\ LET v == vacancies[vi]
     IN  IF Iterable(v)
         THEN /\ raw_languages' = raw_languages \o SelectSeq(get_skills(v), IsLanguage)
              /\ raw_soft' = raw_soft \o SelectSeq(get_skills(v), IsSoft)
              /\ raw_technical' = raw_technical \o SelectSeq(get_skills(v), IsTechnical)
              /\ vi' = vi + 1
              /\ pc' = pc
         ELSE /\ pc' = "raised"
              /\ UNCHANGED <<vi, raw_technical, raw_soft, raw_languages>>
  /\ UNCHANGED <<vacancies, technical, soft, languages, combos, result>>

\* The three _normalize_category calls (analyzer.py:163-187).
NormalizeCategories ==
  /\ pc = "categorize"
  /\ vi > Len(vacancies)
  /\ technical' = normalize_category(raw_technical)
  /\ soft' = normalize_category(raw_soft)
  /\ languages' = normalize_category(raw_languages)
  /\ combos' = <<>>
  /\ vi' = 1
  /\ pc' = "combos"
  /\ UNCHANGED <<vacancies, raw_technical, raw_soft, raw_languages, result>>

\* One iteration of the co-occurrence loop (analyzer.py:188-197).
CoOccur ==
  /\ pc = "combos"
  /\ vi <= Len(vacancies)
  /\ LET v == vacancies[vi]
     IN  IF Iterable(v)
         THEN /\ \E unique_list \in unique_lists(v) :
                    combos' = CountPairs(combos, unique_list, 1, 2)
              /\ vi' = vi + 1
              /\ pc' = pc
         ELSE /\ pc' = "raised"
              /\ UNCHANGED <<vi, combos>>
  /\ UNCHANGED <<vacancies, raw_technical, raw_soft, raw_languages,
                 technical, soft, languages, result>>

\* The return statement (analyzer.py:199-207).
Return ==
  /\ pc = "combos"
  /\ vi > Len(vacancies)
  /\ result' =
       [technical |-> technical,
        soft |-> soft,
        languages |-> languages,
        total_mentions |-> Len(raw_technical) + Len(raw_soft) + Len(raw_languages),
        unique_raw |-> Len(Counter(raw_technical \o raw_soft \o raw_languages)),
        unique_normalized |-> Len(technical) + Len(soft) + Len(languages),
        combinations |-> most_common(combos, TopN)]
  /\ pc' = "done"
  /\ UNCHANGED <<vacancies, vi, raw_technical, raw_soft, raw_languages,
                 technical, soft, languages, combos>>

Next == Categorize \/ NormalizeCategories \/ CoOccur \/ Return

Spec == Init /\ [][Next]_vars

\* analyze_skills applied to the variants of the synonym table.
InitSynonyms ==
  /\ vacancies \in SynonymInputs
  /\ pc = "categorize"
  /\ vi = 1
  /\ raw_technical = <<>>
  /\ raw_soft = <<>>
  /\ raw_languages = <<>>
  /\ technical = <<>>
  /\ soft = <<>>
  /\ languages = <<>>
  /\ combos = <<>>
  /\ result = NoResult

SpecSynonyms == InitSynonyms /\ [][Next]_vars

----------------------------------------------------------------------------
(* Properties *)

\* The elements of a sequence.
Range(seq) == {seq[n] : n \in DOMAIN seq}

\* The sum of the count fields of a sequence of items.
RECURSIVE SumCounts(_)
SumCounts(items) ==
  IF items = <<>> THEN 0 ELSE Head(items).count + SumCounts(Tail(items))

\* The sum of total_count over the buckets of a category.
RECURSIVE SumTotals(_)
SumTotals(buckets) ==
  IF buckets = <<>> THEN 0
  ELSE Head(buckets).total_count + SumTotals(Tail(buckets))

\* A category of the output as a mapping: the set of <<canonical, total_count>>.
Totals(buckets) ==
  {<<buckets[b].canonical, buckets[b].total_count>> : b \in DOMAIN buckets}

\* The number of skill strings of vacancies 1..n, a missing 'skills' key
\* counting as no strings.
RECURSIVE NumStrings(_, _)
NumStrings(vs, n) ==
  IF n = 0 THEN 0 ELSE Len(get_skills(vs[n])) + NumStrings(vs, n - 1)

\* How many times string s is mentioned in the whole input.
RECURSIVE NumMentions(_, _, _)
NumMentions(vs, n, s) ==
  IF n = 0 THEN 0
  ELSE Cardinality({m \in DOMAIN get_skills(vs[n]) : get_skills(vs[n])[m] = s})
       + NumMentions(vs, n - 1, s)

\* The distinct skill strings of the input.
InputStrings ==
  UNION {Range(get_skills(vacancies[j])) : j \in DOMAIN vacancies}

\* The canonical names of the mentions of vacancy v that the classifier
\* labels technical.
TechnicalNames(v) ==
  {NormalizeOf[s] : s \in {t \in Range(get_skills(v)) : category(t) = "technical"}}

\* The co-occurrence loop is running or has finished; vacancies 1..vi-1 have
\* been counted.
InCombos == pc \in {"combos", "done"}

\* C1: on the two vacancies ["Go", "PostgreSQL", <stress tolerance, in
\* Russian>] and ["golang", "Docker"], analyze_skills returns technical =
\* {Golang: 2, PostgreSQL: 1, Docker: 1}, soft = {<the title-cased raw
\* string>: 1}, languages = {}, and combinations = exactly the pairs
\* (Golang, PostgreSQL): 1 and (Docker, Golang): 1.
C1_EndToEnd ==
  (pc = "done" /\ vacancies = EndToEnd) =>
     /\ Totals(result.technical) =
          {<<N_Golang, 2>>, <<N_PostgreSQL, 1>>, <<N_Docker, 1>>}
     /\ Totals(result.soft) = {<<N_Stress, 1>>}
     /\ N_Stress = title(S_stress)
     /\ result.languages = <<>>
     /\ Len(result.combinations) = 2
     /\ Range(result.combinations) =
          {[key |-> <<N_Golang, N_PostgreSQL>>, count |-> 1],
           [key |-> <<N_Docker, N_Golang>>, count |-> 1]}

\* C2: a vacancy whose 'skills' is missing or malformed (absent key, or a
\* null value) is treated as having no skills: no error is raised, the run
\* completes, and the vacancy adds no mention and no pair.
C2_MissingSkillsAreEmpty ==
  /\ pc # "raised"
  /\ pc = "done" =>
       /\ result.total_mentions =
            Len(raw_technical) + Len(raw_soft) + Len(raw_languages)
       /\ result.total_mentions = NumStrings(vacancies, Len(vacancies))

\* C3: after the co-occurrence loop has processed a prefix of the vacancies,
\* the counter of every pair {A, B} of distinct names equals the number of
\* vacancies of the prefix whose technical mentions normalize to both A and
\* B; repeated mentions of a skill on one vacancy add at most 1.
C3_PairCountIsVacancyCount ==
  InCombos =>
    LET names == UNION {TechnicalNames(vacancies[j]) : j \in DOMAIN vacancies}
                 \cup UNION {Range(combos[n].key) : n \in DOMAIN combos}
    IN  \A A, B \in names :
          A # B =>
            GetItem(combos, <<A, B>>) + GetItem(combos, <<B, A>>) =
              Cardinality({j \in 1..(vi - 1) :
                             {A, B} \subseteq TechnicalNames(vacancies[j])})

\* C3 witness: a counted vacancy mentions one canonical skill more than
\* once, and a pair with that skill has been counted on two vacancies.
C3_Witness ==
  /\ InCombos
  /\ \E j \in 1..(vi - 1) :
        /\ Len(current_raw_tech(vacancies[j])) >
             Cardinality(normalized_tech_in_vacancy(vacancies[j]))
        /\ Cardinality(normalized_tech_in_vacancy(vacancies[j])) >= 2
  /\ \E n \in DOMAIN combos : combos[n].count = 2

\* Every raw string of raw_skills is a variant of exactly one bucket, once.
InOneBucket(buckets, raw_skills) ==
  \A s \in Range(raw_skills) :
     /\ Cardinality({b \in DOMAIN buckets :
                       \E n \in DOMAIN buckets[b].variants :
                          buckets[b].variants[n].key = s}) = 1
     /\ \A b \in DOMAIN buckets :
           Cardinality({n \in DOMAIN buckets[b].variants :
                          buckets[b].variants[n].key = s}) <= 1

\* total_count of every bucket is the sum of its variant counts.
Conserved(buckets) ==
  \A b \in DOMAIN buckets :
     buckets[b].total_count = SumCounts(buckets[b].variants)

\* C4: in the output, for every category and every bucket, total_count is
\* the sum of the counts of the bucket's variants, and every raw string is in
\* the variants of exactly one bucket of its category.
C4_AggregationConservation ==
  pc = "done" =>
     /\ Conserved(result.technical) /\ InOneBucket(result.technical, raw_technical)
     /\ Conserved(result.soft) /\ InOneBucket(result.soft, raw_soft)
     /\ Conserved(result.languages) /\ InOneBucket(result.languages, raw_languages)

\* C4 witness: a returned bucket with several variants, one of them
\* mentioned more than once.
C4_Witness ==
  /\ pc = "done"
  /\ \E b \in DOMAIN result.technical :
        /\ Len(result.technical[b].variants) >= 2
        /\ result.technical[b].total_count > Len(result.technical[b].variants)

\* C5: every mention is placed in exactly one category, language level
\* first, then soft, else technical; so the total_count of all buckets of the
\* three categories add up to total_mentions, the number of skill strings of
\* the input.
C5_CategoryPartition ==
  pc = "done" =>
     /\ \A s \in Range(raw_languages) : IsLanguageOf[s]
     /\ \A s \in Range(raw_soft) : ~IsLanguageOf[s] /\ IsSoftOf[s]
     /\ \A s \in Range(raw_technical) : ~IsLanguageOf[s] /\ ~IsSoftOf[s]
     /\ \A s \in InputStrings :
           NumMentions(vacancies, Len(vacancies), s) =
             Cardinality({n \in DOMAIN raw_technical : raw_technical[n] = s})
             + Cardinality({n \in DOMAIN raw_soft : raw_soft[n] = s})
             + Cardinality({n \in DOMAIN raw_languages : raw_languages[n] = s})
     /\ SumTotals(result.technical) + SumTotals(result.soft)
          + SumTotals(result.languages) = result.total_mentions
     /\ result.total_mentions = NumStrings(vacancies, Len(vacancies))

\* C5 witness: a run that returned with all three categories filled, one of
\* the language mentions also matching a soft-skill pattern.
C5_Witness ==
  /\ pc = "done"
  /\ raw_technical # <<>> /\ raw_soft # <<>>
  /\ \E s \in Range(raw_languages) : IsSoftOf[s]

----------------------------------------------------------------------------
\* The technical mentions of vacancies 1..n as the co-occurrence loop
\* filters them, in input order.
RECURSIVE ComboMentions(_, _)
ComboMentions(vs, n) ==
  IF n = 0 THEN <<>>
  ELSE ComboMentions(vs, n - 1) \o current_raw_tech(vs[n])

\* C6: every name of every pair is the canonical form of a mention that was
\* classified technical on a vacancy counted for that pair; soft and
\* language-level mentions contribute no name; the co-occurrence loop keeps
\* exactly the mentions the categorization loop put in raw_technical.
C6_NoCrossCategoryPairing ==
  InCombos =>
     /\ \A n \in DOMAIN combos :
           \E j \in 1..(vi - 1) :
              Range(combos[n].key) \subseteq TechnicalNames(vacancies[j])
     /\ ComboMentions(vacancies, Len(vacancies)) = raw_technical

\* C6 witness: a counted vacancy with a soft or language-level mention next
\* to two technical skills that were paired.
C6_Witness ==
  /\ InCombos
  /\ \E j \in 1..(vi - 1) :
        /\ \E s \in Range(get_skills(vacancies[j])) : category(s) # "technical"
        /\ \E n \in DOMAIN combos :
              Range(combos[n].key) \subseteq TechnicalNames(vacancies[j])

\* C7: after any prefix of the vacancies, every key of the co-occurrence
\* counter is a 2-tuple (A, B) with A < B, and no two items have the same
\* pair of names in either order.
C7_PairSymmetry ==
  InCombos =>
     /\ \A n \in DOMAIN combos :
           /\ Len(combos[n].key) = 2
           /\ StrLess(combos[n].key[1], combos[n].key[2])
     /\ \A m, n \in DOMAIN combos :
           Range(combos[m].key) = Range(combos[n].key) => m = n

\* C7 witness: pairs have been counted and vacancies are still to come.
C7_Witness ==
  /\ pc = "combos"
  /\ vi > 1 /\ vi <= Len(vacancies)
  /\ Len(combos) >= 3

\* C8: combinations has min(30, number of distinct pairs) entries, in
\* non-increasing order of count, each an item of the counter, and no pair
\* left out has a count greater than a pair that is included.
C8_TopThirty ==
  pc = "done" =>
     LET top == result.combinations
     IN  /\ Len(top) = IF Len(combos) < TopN THEN Len(combos) ELSE TopN
         /\ \A n \in 1..(Len(top) - 1) : top[n].count >= top[n + 1].count
         /\ Range(top) \subseteq Range(combos)
         /\ \A m, n \in DOMAIN top : top[m].key = top[n].key => m = n
         /\ \A left \in Range(combos) \ Range(top) :
               \A kept \in Range(top) : left.count <= kept.count

\* C8 witness: more than 30 distinct pairs of unequal counts, 30 returned.
C8_Witness ==
  /\ pc = "done"
  /\ Len(combos) > TopN
  /\ Len(result.combinations) = TopN
  /\ \E m, n \in DOMAIN combos : combos[m].count > combos[n].count

\* C9: unique_raw is the number of distinct raw skill strings of the input,
\* and unique_normalized the number of distinct canonical names over the
\* three categories together, a name of two categories counted once.
C9_UniqueCounts ==
  pc = "done" =>
     /\ result.unique_raw = Cardinality(InputStrings)
     /\ result.unique_normalized =
          Cardinality({result.technical[b].canonical : b \in DOMAIN result.technical}
                      \cup {result.soft[b].canonical : b \in DOMAIN result.soft}
                      \cup {result.languages[b].canonical : b \in DOMAIN result.languages})

\* C10: an empty or whitespace-only skill string is classified technical and
\* normalizes to the trimmed, title-cased input, the empty string.
C10_BlankSkill ==
  pc = "done" =>
     \A s \in InputStrings :
        strip(s) = <<>> =>
           /\ s \in Range(raw_technical)
           /\ \A b \in DOMAIN result.technical :
                 (\E n \in DOMAIN result.technical[b].variants :
                     result.technical[b].variants[n].key = s)
                 => /\ result.technical[b].canonical = title(strip(s))
                    /\ result.technical[b].canonical = <<>>

----------------------------------------------------------------------------
\* The co-occurrence counter after vacancies 1..n of the run that iterates
\* every per-vacancy set in ascending order, one of the orders of IterOrders.
RECURSIVE AscendingRunCombos(_, _)
AscendingRunCombos(vs, n) ==
  IF n = 0 THEN <<>>
  ELSE CountPairs(AscendingRunCombos(vs, n - 1),
                  AscendingStr(normalized_tech_in_vacancy(vs[n])), 1, 2)

\* C11: analyze_skills is a function of the vacancy collection: every run on
\* an input returns the same combinations, pairs and order, whatever order
\* the per-vacancy sets are iterated in; so every run returns what the run
\* that iterates each set in ascending order returns.
C11_PureFunction ==
  pc = "done" =>
     result.combinations =
        most_common(AscendingRunCombos(vacancies, Len(vacancies)), TopN)

----------------------------------------------------------------------------
\* The position of the first mention of string s in raw_skills.
FirstSeen(raw_skills, s) ==
  CHOOSE n \in DOMAIN raw_skills :
     /\ raw_skills[n] = s
     /\ \A m \in 1..(n - 1) : raw_skills[m] # s

\* The position of the first mention that belongs to bucket.
BucketFirstSeen(raw_skills, bucket) ==
  LET seen == {FirstSeen(raw_skills, bucket.variants[n].key) :
                 n \in DOMAIN bucket.variants}
  IN  CHOOSE n \in seen : \A m \in seen : n <= m

\* The display order of one category built from raw_skills.
DisplayOrdered(buckets, raw_skills) ==
  /\ \A b \in DOMAIN buckets :
        LET v == buckets[b].variants
        IN  \A m, n \in DOMAIN v :
               m < n =>
                 /\ v[m].count >= v[n].count
                 /\ v[m].count = v[n].count =>
                      FirstSeen(raw_skills, v[m].key) < FirstSeen(raw_skills, v[n].key)
  /\ \A a, b \in DOMAIN buckets :
        a < b =>
          /\ buckets[a].total_count >= buckets[b].total_count
          /\ buckets[a].total_count = buckets[b].total_count =>
               BucketFirstSeen(raw_skills, buckets[a]) <
                 BucketFirstSeen(raw_skills, buckets[b])

\* C12: in every category of the output the variants of each bucket are in
\* non-increasing order of count and the buckets in non-increasing order of
\* total_count; variants and buckets that tie keep their first-seen order.
C12_DisplayOrder ==
  pc = "done" =>
     /\ DisplayOrdered(result.technical, raw_technical)
     /\ DisplayOrdered(result.soft, raw_soft)
     /\ DisplayOrdered(result.languages, raw_languages)

\* C12 witness: a returned category with a bucket of two tied variants, two
\* tied buckets, and a bucket of higher total_count ahead of them.
C12_Witness ==
  /\ pc = "done"
  /\ \E b \in DOMAIN result.technical :
        LET v == result.technical[b].variants
        IN  Len(v) >= 2 /\ v[1].count = v[2].count
  /\ \E a, b \in DOMAIN result.technical :
        /\ a < b
        /\ result.technical[a].total_count = result.technical[b].total_count
  /\ \E a, b \in DOMAIN result.technical :
        result.technical[a].total_count > result.technical[b].total_count

----------------------------------------------------------------------------
\* The buckets of the three categories of the output.
AllBuckets ==
  Range(result.technical) \cup Range(result.soft) \cup Range(result.languages)

\* C13: for every variant v of SYNONYMS, normalize(v) is SYNONYMS[v]: a
\* variant handed to analyze_skills is reported under the canonical name of
\* its entry; equivalently no two variants of different canonical names have
\* the same lookup key.
C13_SynonymsHonoured ==
  pc = "done" =>
     /\ \A i \in DOMAIN SYNONYMS :
           \A bucket \in AllBuckets :
              (\E n \in DOMAIN bucket.variants :
                  bucket.variants[n].key = SYNONYMS[i][1])
              => bucket.canonical = SYNONYMS[i][2]
     /\ \A i, j \in DOMAIN SYNONYMS :
           processed(SYNONYMS[i][1]) = processed(SYNONYMS[j][1])
           => SYNONYMS[i][2] = SYNONYMS[j][2]

----------------------------------------------------------------------------
====
